---- MODULE Spec2Model ----
(***************************************************************************)
(* The chat relay route of fancychat-app: the timeout-aware POST handler   *)
(* and the GET handler, as a state machine over a few concurrently handled *)
(* requests.  A handler step is the code between two awaits.               *)
(***************************************************************************)
EXTENDS Integers, Sequences, FiniteSets, TLC

\* Number of requests the host dispatches concurrently.
NumRequests == 2

Requests == 1..NumRequests

(***************************************************************************)
(* JavaScript values: a type tag t and a payload p.                        *)
(***************************************************************************)
Undefined == [t |-> "undefined", p |-> <<>>]
Null == [t |-> "null", p |-> <<>>]
Num(n) == [t |-> "number", p |-> n]
Str(s) == [t |-> "string", p |-> s]
Arr(items) == [t |-> "array", p |-> items]
Obj(fields) == [t |-> "object", p |-> fields]

\* ToBoolean, as applied by ! and ||
Truthy(v) ==
    CASE v.t = "undefined" -> FALSE
      [] v.t = "null" -> FALSE
      [] v.t = "number" -> v.p # 0
      [] v.t = "string" -> v.p # ""
      [] OTHER -> TRUE

IsArray(v) == v.t = "array"

\* v.key throws a TypeError exactly when v is null or undefined
ReadThrows(v) == v.t \in {"null", "undefined"}

\* v.key, for a v on which the read does not throw
Get(v, key) ==
    IF v.t = "object" /\ key \in DOMAIN v.p THEN v.p[key] ELSE Undefined

\* v?.key
OptGet(v, key) == IF ReadThrows(v) THEN Undefined ELSE Get(v, key)

\* v[0]
First(v) == IF IsArray(v) /\ Len(v.p) > 0 THEN v.p[1] ELSE Undefined

\* String.prototype.includes on a message kept as its sequence of words
Includes(words, w) == \E i \in 1..Len(words) : words[i] = w

(***************************************************************************)
(* Inputs.                                                                 *)
(***************************************************************************)
Malformed == [t |-> "malformed", p |-> <<>>]

UserMessage == Obj([role |-> Str("user"), content |-> Str("Hello")])

\* what request.json() is asked to parse
RequestBodies ==
    { Malformed,
      Null,
      Num(5),
      Obj([other |-> Num(1)]),
      Obj([message |-> Str("hi")]),
      Obj([message |-> Str("")]),
      Obj([message |-> Arr(<<>>)]),
      Obj([message |-> Arr(<<UserMessage>>)]) }

\* process.env.OPENROUTER_API_KEY
ApiKeys == { Undefined, Str(""), Str("sk-or-key") }

\* statuses the upstream can answer with
UpstreamStatuses == { 200, 400, 401, 429, 500 }

\* bodies of an upstream error response, as text
ErrorBodies == { "quota exceeded for org 42", "internal stack trace" }

UsageFive == Obj([total_tokens |-> Num(5)])

Choice(content) == Obj([message |-> Obj([content |-> content])])

\* what openRouterResponse.json() is asked to parse
UpstreamBodies ==
    { Malformed,
      Null,
      Num(7),
      Obj([usage |-> UsageFive]),
      Obj([choices |-> Str("none"), usage |-> UsageFive]),
      Obj([choices |-> Arr(<<>>), usage |-> UsageFive]),
      Obj([choices |-> Arr(<<Choice(Str("Hi there"))>>), usage |-> UsageFive]),
      Obj([choices |-> Arr(<<Choice(Str(""))>>), usage |-> UsageFive]),
      Obj([choices |-> Arr(<<Obj([index |-> Num(0)])>>)]) }

\* errors
Err(name, code, message) == [name |-> name, code |-> code, message |-> message]

NoError == Err("", "", <<>>)

AbortError == Err("AbortError", "", <<"This", "operation", "was", "aborted">>)

\* rejections of fetch that the network can cause
NetworkErrors ==
    { Err("Error", "ECONNREFUSED", <<"connect", "ECONNREFUSED">>),
      Err("Error", "ENOTFOUND", <<"getaddrinfo", "ENOTFOUND">>),
      Err("Error", "ETIMEDOUT", <<"connect", "ETIMEDOUT">>),
      Err("TypeError", "", <<"fetch", "failed">>) }

\* the SyntaxError of json() on a body that is not JSON
JsonSyntaxError == Err("SyntaxError", "", <<"Unexpected", "token">>)

\* the TypeError of reading a property of null, as the engines word it
NullReadErrors ==
    { Err("TypeError", "", <<"Cannot", "read", "properties", "of", "null">>),
      Err("TypeError", "", <<"null", "is", "not", "an", "object">>) }

(***************************************************************************)
(* Responses: NextResponse.json(body, {status}).                           *)
(***************************************************************************)
NoResponse ==
    [status |-> 0, success |-> FALSE, error |-> "", response |-> Undefined, usage |-> Undefined]

ErrorResponse(error, status) ==
    [status |-> status, success |-> FALSE, error |-> error, response |-> Undefined, usage |-> Undefined]

SuccessResponse(response, usage) ==
    [status |-> 200, success |-> TRUE, error |-> "", response |-> response, usage |-> usage]

(***************************************************************************)
(* The handler's decisions, as pure functions of what it has read.         *)
(***************************************************************************)
\* a validation that forgets Array.isArray
InvalidMessage_NoArrayCheck(message) == ~Truthy(message)

\* if (!message || !Array.isArray(message))
InvalidMessage(message) == ~Truthy(message) \/ ~IsArray(message)

\* a key check that compares with undefined only
ApiKeyMissing_UndefinedOnly(key) == key.t = "undefined"

\* if (!apiKey)
ApiKeyMissing(key) == ~Truthy(key)

\* openRouterResponse.ok
Ok(status) == status >= 200 /\ status <= 299

\* a catch block around fetch without the AbortError case
FetchErrorResponse_NoAbortCase(fetchError) ==
    IF fetchError.code = "ECONNREFUSED" \/ fetchError.code = "ENOTFOUND"
    THEN ErrorResponse("Unable to connect to AI service. Please try again later.", 503)
    ELSE IF fetchError.code = "ETIMEDOUT"
    THEN ErrorResponse("Connection timed out. Please try again.", 504)
    ELSE ErrorResponse("Network error occurred. Please check your connection and try again.", 502)

\* the catch block around fetch
FetchErrorResponse(fetchError) ==
    IF fetchError.name = "AbortError"
    THEN ErrorResponse("Request timed out. Please try again.", 408)
    ELSE IF fetchError.code = "ECONNREFUSED" \/ fetchError.code = "ENOTFOUND"
    THEN ErrorResponse("Unable to connect to AI service. Please try again later.", 503)
    ELSE IF fetchError.code = "ETIMEDOUT"
    THEN ErrorResponse("Connection timed out. Please try again.", 504)
    ELSE ErrorResponse("Network error occurred. Please check your connection and try again.", 502)

\* a status mapping that tests status > 500
UpstreamErrorResponse_Above500(status, errorText) ==
    IF status = 401
    THEN ErrorResponse("Invalid API key. Please check your configuration.", 401)
    ELSE IF status = 429
    THEN ErrorResponse("Rate limit exceeded. Please try again later.", 429)
    ELSE IF status > 500
    THEN ErrorResponse("AI service is temporarily unavailable. Please try again later.", 503)
    ELSE ErrorResponse("Failed to get response from AI service", status)

\* a status mapping that relays the upstream error body in the generic case
UpstreamErrorResponse_RelayBody(status, errorText) ==
    IF status = 401
    THEN ErrorResponse("Invalid API key. Please check your configuration.", 401)
    ELSE IF status = 429
    THEN ErrorResponse("Rate limit exceeded. Please try again later.", 429)
    ELSE IF status >= 500
    THEN ErrorResponse("AI service is temporarily unavailable. Please try again later.", 503)
    ELSE ErrorResponse(errorText, status)

\* the mapping of a non-ok upstream status; errorData is in scope and only logged
UpstreamErrorResponse(status, errorText) ==
    IF status = 401
    THEN ErrorResponse("Invalid API key. Please check your configuration.", 401)
    ELSE IF status = 429
    THEN ErrorResponse("Rate limit exceeded. Please try again later.", 429)
    ELSE IF status >= 500
    THEN ErrorResponse("AI service is temporarily unavailable. Please try again later.", 503)
    ELSE ErrorResponse("Failed to get response from AI service", status)

\* if (!data.choices || !Array.isArray(data.choices) || data.choices.length === 0),
\* for a data on which reading .choices does not throw
InvalidStructure(d) ==
    \/ ~Truthy(Get(d, "choices"))
    \/ ~IsArray(Get(d, "choices"))
    \/ Len(Get(d, "choices").p) = 0

\* data.choices[0]?.message?.content
Content(d) == OptGet(OptGet(First(Get(d, "choices")), "message"), "content")

\* a response text without the fallback literal
ResponseText_NoFallback(d) == Content(d)

\* data.choices[0]?.message?.content || 'No response generated'
ResponseText(d) ==
    IF Truthy(Content(d)) THEN Content(d) ELSE Str("No response generated")

\* the success response
ChatResult(d) == SuccessResponse(ResponseText(d), Get(d, "usage"))

\* the top-level catch block's mapping
CaughtErrorResponse(error) ==
    IF error.name = "TypeError" /\ Includes(error.message, "fetch")
    THEN ErrorResponse("Network error. Please check your internet connection.", 502)
    ELSE IF error.name = "SyntaxError"
    THEN ErrorResponse("Invalid response format received.", 502)
    ELSE ErrorResponse("An unexpected error occurred. Please try again.", 500)

\* a clearTimeout that is never made
clearTimeout_Skipped(t) == t

\* clearTimeout(timeoutId): a pending timer is cancelled, any other is left as it is
clearTimeout(t) == IF t = "pending" THEN "cleared" ELSE t

(***************************************************************************)
(* State.                                                                  *)
(***************************************************************************)
VARIABLES
    apiKey,         \* process.env.OPENROUTER_API_KEY
    pc,             \* where each request's handler is suspended
    method,         \* the request's verb
    body,           \* what the request carries as its body
    message,        \* the handler's local `message`
    timer,          \* the request's deadline timer: none, pending, fired, cleared
    aborted,        \* controller.signal.aborted
    upstreamStatus, \* openRouterResponse.status, 0 before the upstream answers
    errorData,      \* the handler's local `errorData`, which it logs
    data,           \* the handler's local `data`
    caught,         \* the error the handler last caught
    response,       \* what the caller is answered
    upstreamCalls,  \* fetch calls issued for the request
    bodyReads,      \* text() and json() calls made on the upstream response
    trace           \* the phases the request went through

vars == <<apiKey, pc, method, body, message, timer, aborted, upstreamStatus,
          errorData, data, caught, response, upstreamCalls, bodyReads, trace>>

Init ==
    /\ apiKey \in ApiKeys
    /\ pc = [r \in Requests |-> "idle"]
    /\ method = [r \in Requests |-> ""]
    /\ body = [r \in Requests |-> Undefined]
    /\ message = [r \in Requests |-> Undefined]
    /\ timer = [r \in Requests |-> "none"]
    /\ aborted = [r \in Requests |-> FALSE]
    /\ upstreamStatus = [r \in Requests |-> 0]
    /\ errorData = [r \in Requests |-> ""]
    /\ data = [r \in Requests |-> Undefined]
    /\ caught = [r \in Requests |-> NoError]
    /\ response = [r \in Requests |-> NoResponse]
    /\ upstreamCalls = [r \in Requests |-> 0]
    /\ bodyReads = [r \in Requests |-> 0]
    /\ trace = [r \in Requests |-> <<>>]

\* return NextResponse.json(...): the request is answered after the given phases
Return(r, resp, phases) ==
    /\ pc' = [pc EXCEPT ![r] = "responded"]
    /\ response' = [response EXCEPT ![r] = resp]
    /\ trace' = [trace EXCEPT ![r] = @ \o phases \o <<"Responded">>]

\* createTimeoutController: a fresh controller and a pending timer
createTimeoutController(r) ==
    /\ timer' = [timer EXCEPT ![r] = "pending"]
    /\ aborted' = [aborted EXCEPT ![r] = FALSE]

(***************************************************************************)
(* Operations.                                                             *)
(***************************************************************************)
\* GET: answered at once
GET(r) ==
    /\ pc[r] = "idle"
    /\ method' = [method EXCEPT ![r] = "GET"]
    /\ Return(r, ErrorResponse("Method not allowed. Use POST instead.", 405), <<"Received">>)
    /\ UNCHANGED <<apiKey, body, message, timer, aborted, upstreamStatus, errorData,
                   data, caught, upstreamCalls, bodyReads>>

\* POST, up to `await request.json()`
POST_Begin(r) ==
    /\ pc[r] = "idle"
    /\ \E b \in RequestBodies : body' = [body EXCEPT ![r] = b]
    /\ method' = [method EXCEPT ![r] = "POST"]
    /\ pc' = [pc EXCEPT ![r] = "requestJson"]
    /\ trace' = [trace EXCEPT ![r] = <<"Received">>]
    /\ UNCHANGED <<apiKey, message, timer, aborted, upstreamStatus, errorData, data,
                   caught, response, upstreamCalls, bodyReads>>

\* POST, from the settling of request.json() to `await fetch(...)`
POST_Validate(r) ==
    /\ pc[r] = "requestJson"
    /\ IF body[r] = Malformed \/ ReadThrows(body[r])
       THEN \* request.json() rejects, or body.message throws: the inner catch
            /\ \E parseError \in IF body[r] = Malformed THEN {JsonSyntaxError} ELSE NullReadErrors :
                  caught' = [caught EXCEPT ![r] = parseError]
            /\ Return(r, ErrorResponse("Invalid JSON in request body", 400), <<>>)
            /\ UNCHANGED <<message, timer, aborted, upstreamCalls>>
       ELSE /\ message' = [message EXCEPT ![r] = Get(body[r], "message")]
            /\ UNCHANGED caught
            /\ IF InvalidMessage(Get(body[r], "message"))
               THEN /\ Return(r, ErrorResponse("Invalid request. Expected {message: []} in body", 400), <<>>)
                    /\ UNCHANGED <<timer, aborted, upstreamCalls>>
               ELSE IF ApiKeyMissing(apiKey)
               THEN /\ Return(r, ErrorResponse("OpenRouter API key not configured", 500), <<>>)
                    /\ UNCHANGED <<timer, aborted, upstreamCalls>>
               ELSE /\ createTimeoutController(r)
                    /\ upstreamCalls' = [upstreamCalls EXCEPT ![r] = @ + 1]
                    /\ pc' = [pc EXCEPT ![r] = "fetch"]
                    /\ trace' = [trace EXCEPT ![r] = @ \o <<"Validated", "Dispatched">>]
                    /\ UNCHANGED response
    /\ UNCHANGED <<apiKey, method, body, upstreamStatus, errorData, data, bodyReads>>

\* the deadline timer's callback: controller.abort()
TimerFire(r) ==
    /\ timer[r] = "pending"
    /\ timer' = [timer EXCEPT ![r] = "fired"]
    /\ aborted' = [aborted EXCEPT ![r] = TRUE]
    /\ UNCHANGED <<apiKey, pc, method, body, message, upstreamStatus, errorData, data,
                   caught, response, upstreamCalls, bodyReads, trace>>

\* POST, fetch rejected because its signal was aborted
POST_FetchAborted(r) ==
    /\ pc[r] = "fetch"
    /\ aborted[r]
    /\ timer' = [timer EXCEPT ![r] = clearTimeout(@)]
    /\ caught' = [caught EXCEPT ![r] = AbortError]
    /\ Return(r, FetchErrorResponse(AbortError), <<"TimedOut">>)
    /\ UNCHANGED <<apiKey, method, body, message, aborted, upstreamStatus, errorData,
                   data, upstreamCalls, bodyReads>>

\* POST, fetch rejected by the network
POST_FetchFailed(r) ==
    /\ pc[r] = "fetch"
    /\ ~aborted[r]
    /\ timer' = [timer EXCEPT ![r] = clearTimeout(@)]
    /\ \E fetchError \in NetworkErrors :
          /\ caught' = [caught EXCEPT ![r] = fetchError]
          /\ Return(r, FetchErrorResponse(fetchError), <<"TransportFailed">>)
    /\ UNCHANGED <<apiKey, method, body, message, aborted, upstreamStatus, errorData,
                   data, upstreamCalls, bodyReads>>

\* POST, fetch resolved: up to `await openRouterResponse.text()` or `.json()`
POST_FetchResolved(r) ==
    /\ pc[r] = "fetch"
    /\ ~aborted[r]
    /\ timer' = [timer EXCEPT ![r] = clearTimeout(@)]
    /\ \E status \in UpstreamStatuses :
          /\ upstreamStatus' = [upstreamStatus EXCEPT ![r] = status]
          /\ pc' = [pc EXCEPT ![r] = IF Ok(status) THEN "json" ELSE "text"]
          /\ trace' = [trace EXCEPT ![r] =
                          @ \o <<IF Ok(status) THEN "UpstreamSuccess" ELSE "UpstreamError">>]
    /\ bodyReads' = [bodyReads EXCEPT ![r] = @ + 1]
    /\ UNCHANGED <<apiKey, method, body, message, aborted, errorData, data, caught,
                   response, upstreamCalls>>

\* POST, from the settling of openRouterResponse.text() to the answer
POST_TextSettled(r) ==
    /\ pc[r] = "text"
    /\ \E text \in ErrorBodies \cup {"Unable to read error response"} :
          /\ errorData' = [errorData EXCEPT ![r] = text]
          /\ Return(r, UpstreamErrorResponse(upstreamStatus[r], text), <<>>)
    /\ UNCHANGED <<apiKey, method, body, message, timer, aborted, upstreamStatus, data,
                   caught, upstreamCalls, bodyReads>>

\* POST, from the settling of openRouterResponse.json() to the answer
POST_JsonSettled(r) ==
    /\ pc[r] = "json"
    /\ \E d \in UpstreamBodies :
          IF d = Malformed
          THEN \* json() rejects: the inner catch
               /\ caught' = [caught EXCEPT ![r] = JsonSyntaxError]
               /\ Return(r, ErrorResponse("Invalid response from AI service", 502), <<>>)
               /\ UNCHANGED <<data, timer>>
          ELSE /\ data' = [data EXCEPT ![r] = d]
               /\ IF ReadThrows(d)
                  THEN \* data.choices throws: the top-level catch
                       \E error \in NullReadErrors :
                          /\ caught' = [caught EXCEPT ![r] = error]
                          /\ timer' = [timer EXCEPT ![r] =
                                          IF @ # "none" THEN clearTimeout(@) ELSE @]
                          /\ Return(r, CaughtErrorResponse(error), <<>>)
                  ELSE /\ IF InvalidStructure(d)
                          THEN Return(r, ErrorResponse("Unexpected response format from AI service", 502), <<>>)
                          ELSE Return(r, ChatResult(d), <<>>)
                       /\ UNCHANGED <<caught, timer>>
    /\ UNCHANGED <<apiKey, method, body, message, aborted, upstreamStatus, errorData,
                   upstreamCalls, bodyReads>>

Next ==
    \E r \in Requests :
        \/ GET(r)
        \/ POST_Begin(r)
        \/ POST_Validate(r)
        \/ TimerFire(r)
        \/ POST_FetchAborted(r)
        \/ POST_FetchFailed(r)
        \/ POST_FetchResolved(r)
        \/ POST_TextSettled(r)
        \/ POST_JsonSettled(r)

Spec == Init /\ [][Next]_vars

\* The handler's steps run when they can and a pending timer fires; nothing is
\* assumed of the upstream or of the network.
FairSpec ==
    /\ Spec
    /\ \A r \in Requests :
          /\ WF_vars(POST_Validate(r))
          /\ WF_vars(TimerFire(r))
          /\ WF_vars(POST_FetchAborted(r))

(***************************************************************************)
(* Vocabulary of the properties.                                           *)
(***************************************************************************)
Responded(r) == pc[r] = "responded"

PostAnswered(r) == method[r] = "POST" /\ Responded(r)

BodyParses(b) == b # Malformed

MessageIsArray(b) ==
    b.t = "object" /\ "message" \in DOMAIN b.p /\ b.p.message.t = "array"

ValidRequestBody(b) == BodyParses(b) /\ MessageIsArray(b)

KeyConfigured == apiKey.t = "string" /\ apiKey.p # ""

Is2xx(status) == status \in 200..299

ConfigurationError == ErrorResponse("OpenRouter API key not configured", 500)

InvalidRequest == ErrorResponse("Invalid request. Expected {message: []} in body", 400)

Timeout == ErrorResponse("Request timed out. Please try again.", 408)

UnexpectedFormat == ErrorResponse("Unexpected response format from AI service", 502)

\* `choices` does not exist, is not an array or is empty, also for a d that is no object
ChoicesUnusable(d) ==
    \/ d.t # "object"
    \/ "choices" \notin DOMAIN d.p
    \/ d.p.choices.t # "array"
    \/ Len(d.p.choices.p) = 0

\* choices[0].message.content of a d with usable choices; Undefined when absent
ContentOf(d) ==
    LET c == d.p.choices.p[1]
    IN  IF /\ c.t = "object"
           /\ "message" \in DOMAIN c.p
           /\ c.p.message.t = "object"
           /\ "content" \in DOMAIN c.p.message.p
        THEN c.p.message.p.content
        ELSE Undefined

UsageOf(d) == IF "usage" \in DOMAIN d.p THEN d.p.usage ELSE Undefined

UpstreamParsed(r) == Responded(r) /\ Is2xx(upstreamStatus[r]) /\ data[r] # Undefined

SuccessConditions(r) ==
    /\ ValidRequestBody(body[r])
    /\ KeyConfigured
    /\ timer[r] # "fired"
    /\ UpstreamParsed(r)
    /\ ~ChoicesUnusable(data[r])

Failed(r) == Responded(r) /\ ~response[r].success

\* the kind of failure of a run: the path it took and the class of the error caught
Kind(r) == <<trace[r], caught[r].name, caught[r].code>>

SameRun(r1, r2) ==
    /\ method[r1] = method[r2]
    /\ body[r1] = body[r2]
    /\ upstreamStatus[r1] = upstreamStatus[r2]
    /\ Kind(r1) = Kind(r2)

FixedMessages ==
    { "Invalid JSON in request body",
      "Invalid request. Expected {message: []} in body",
      "OpenRouter API key not configured",
      "Request timed out. Please try again.",
      "Unable to connect to AI service. Please try again later.",
      "Connection timed out. Please try again.",
      "Network error occurred. Please check your connection and try again.",
      "Invalid API key. Please check your configuration.",
      "Rate limit exceeded. Please try again later.",
      "AI service is temporarily unavailable. Please try again later.",
      "Failed to get response from AI service",
      "Invalid response from AI service",
      "Unexpected response format from AI service",
      "Network error. Please check your internet connection.",
      "Invalid response format received.",
      "An unexpected error occurred. Please try again.",
      "Method not allowed. Use POST instead." }

Rank(phase) ==
    CASE phase = "Received" -> 1
      [] phase = "Validated" -> 2
      [] phase = "Dispatched" -> 3
      [] phase \in {"TimedOut", "TransportFailed", "UpstreamError", "UpstreamSuccess"} -> 4
      [] phase = "Responded" -> 5

Linear(tr) == \A i \in 1..(Len(tr) - 1) : Rank(tr[i]) < Rank(tr[i + 1])

\* everything the model keeps about request q
StateOf(q) ==
    <<pc[q], method[q], body[q], message[q], timer[q], aborted[q], upstreamStatus[q],
      errorData[q], data[q], caught[q], response[q], upstreamCalls[q], bodyReads[q],
      trace[q]>>

(***************************************************************************)
(* Properties.                                                             *)
(***************************************************************************)
\* C1 as stated: an answered POST with no API key configured is answered 500
\* 'OpenRouter API key not configured', whether its body is valid or not.
C1_MissingKeyAlways500 ==
    \A r \in Requests :
        PostAnswered(r) /\ ~KeyConfigured => response[r] = ConfigurationError

\* C1 amended: with no API key configured (unset or empty), an answered POST whose
\* body parses and carries an array `message` is answered 500 'OpenRouter API key
\* not configured'; one whose body is invalid is answered 400.
C1_MissingKey500WhenValid ==
    \A r \in Requests :
        PostAnswered(r) /\ ~KeyConfigured =>
            IF ValidRequestBody(body[r])
            THEN response[r] = ConfigurationError
            ELSE response[r].status = 400

C1_Witness ==
    \E r \in Requests :
        /\ PostAnswered(r)
        /\ ~KeyConfigured
        /\ ValidRequestBody(body[r])
        /\ response[r] = ConfigurationError

\* C2 as stated: a body that parses but has no array `message` (null and primitives
\* included) is answered 400 'Invalid request...'; 'Invalid JSON in request body'
\* is answered only when the body fails to parse; an empty array is not answered 400.
C2_InvalidRequestMessage ==
    \A r \in Requests :
        PostAnswered(r) =>
            /\ (BodyParses(body[r]) /\ ~MessageIsArray(body[r])
                    => response[r] = InvalidRequest)
            /\ (response[r].error = "Invalid JSON in request body"
                    => ~BodyParses(body[r]))
            /\ (body[r] = Obj([message |-> Arr(<<>>)]) => response[r].status # 400)

\* C3: a fired deadline timer aborts its own request's call; that request is then
\* answered 408 'Request timed out. Please try again.' and nothing else, with one
\* upstream call and no read of an upstream response; the firing changes nothing
\* of any other request, and only a request's own timer aborts it.
C3_TimerAbortsOwnCall ==
    /\ [](\A r \in Requests :
            /\ (aborted[r] => timer[r] = "fired")
            /\ (timer[r] = "fired" =>
                    /\ aborted[r]
                    /\ upstreamCalls[r] = 1
                    /\ bodyReads[r] = 0
                    /\ upstreamStatus[r] = 0
                    /\ pc[r] \in {"fetch", "responded"})
            /\ (timer[r] = "fired" /\ Responded(r) => response[r] = Timeout))
    /\ [][\A r \in Requests :
            /\ (timer[r] = "pending" /\ timer'[r] = "fired" =>
                    \A q \in Requests \ {r} : StateOf(q)' = StateOf(q))
            /\ (timer[r] = "fired" =>
                    /\ upstreamCalls'[r] = upstreamCalls[r]
                    /\ bodyReads'[r] = bodyReads[r]
                    /\ upstreamStatus'[r] = upstreamStatus[r])]_vars

C3_Witness ==
    \E r \in Requests : \E q \in Requests \ {r} :
        /\ timer[r] = "fired"
        /\ response[r] = Timeout
        /\ timer[q] = "cleared"
        /\ response[q].status = 200

\* C4: a non-2xx upstream status s is answered 401 for 401, 429 for 429, 503 for
\* s >= 500 and s with 'Failed to get response from AI service' otherwise, also when
\* the upstream error body cannot be read; a passed-through status is neither 2xx
\* nor >= 500.
C4_StatusMapping ==
    \A r \in Requests :
        Responded(r) /\ upstreamStatus[r] # 0 /\ ~Is2xx(upstreamStatus[r]) =>
            LET s == upstreamStatus[r]
            IN  /\ response[r].status =
                      IF s = 401 THEN 401
                      ELSE IF s = 429 THEN 429
                      ELSE IF s >= 500 THEN 503
                      ELSE s
                /\ (s \notin {401, 429} /\ s < 500 =>
                       /\ response[r].error = "Failed to get response from AI service"
                       /\ ~Is2xx(response[r].status)
                       /\ response[r].status < 500)

C4_Witness ==
    \E r \in Requests :
        /\ Responded(r)
        /\ upstreamStatus[r] = 400
        /\ errorData[r] = "Unable to read error response"
        /\ response[r] = ErrorResponse("Failed to get response from AI service", 400)

\* C5 as stated: a 2xx upstream answer whose body parses as JSON but has no usable
\* `choices` (missing, not an array, empty, or the body is null or no object) is
\* answered 502 'Unexpected response format from AI service'.
C5_UnusableChoices502 ==
    \A r \in Requests :
        UpstreamParsed(r) /\ ChoicesUnusable(data[r]) => response[r] = UnexpectedFormat

\* C6 as stated: 200 with success exactly when the request was valid, the key was
\* configured, the call completed before the deadline with a 2xx status and the
\* body parsed with a non-empty `choices` array; `response` is then
\* choices[0].message.content when present and 'No response generated' when
\* absent, and `usage` is the upstream's.
C6_SuccessContentWhenPresent ==
    \A r \in Requests :
        PostAnswered(r) =>
            /\ (response[r].status = 200 /\ response[r].success) <=> SuccessConditions(r)
            /\ (SuccessConditions(r) =>
                    /\ response[r].response =
                          IF ContentOf(data[r]) # Undefined
                          THEN ContentOf(data[r])
                          ELSE Str("No response generated")
                    /\ response[r].usage = UsageOf(data[r]))

\* C6 amended: as C6, but `response` is choices[0].message.content when that value
\* is present and truthy, and 'No response generated' when it is absent or falsy
\* (an empty string).
C6_SuccessContentWhenTruthy ==
    \A r \in Requests :
        PostAnswered(r) =>
            /\ (response[r].status = 200 /\ response[r].success) <=> SuccessConditions(r)
            /\ (SuccessConditions(r) =>
                    /\ response[r].response =
                          IF Truthy(ContentOf(data[r]))
                          THEN ContentOf(data[r])
                          ELSE Str("No response generated")
                    /\ response[r].usage = UsageOf(data[r]))

C6_Witness ==
    \E r \in Requests :
        /\ PostAnswered(r)
        /\ SuccessConditions(r)
        /\ ContentOf(data[r]) = Str("")
        /\ response[r] = SuccessResponse(Str("No response generated"), UsageFive)

\* C7: a request that has been answered has no pending deadline timer.
C7_NoPendingTimerAfterAnswer ==
    \A r \in Requests : Responded(r) => timer[r] # "pending"

C7_Witness ==
    \E r \in Requests :
        /\ Responded(r)
        /\ timer[r] = "cleared"
        /\ caught[r] \in NullReadErrors
        /\ response[r].status = 500

\* C8: two failed runs that agree on the request, the configuration, the upstream
\* status and the kind of failure are answered the same status and error, whatever
\* the upstream error body and the caught error's message say; the error is one of
\* the handler's literals.
C8_NoRelayOfDetails ==
    /\ \A r1, r2 \in Requests :
          Failed(r1) /\ Failed(r2) /\ SameRun(r1, r2) => response[r1] = response[r2]
    /\ \A r \in Requests : Failed(r) => response[r].error \in FixedMessages

C8_Witness ==
    \E r1 \in Requests : \E r2 \in Requests \ {r1} :
        /\ Failed(r1) /\ Failed(r2) /\ SameRun(r1, r2)
        /\ upstreamStatus[r1] = 400
        /\ errorData[r1] \in ErrorBodies /\ errorData[r2] \in ErrorBodies
        /\ errorData[r1] # errorData[r2]

\* C9 as stated: at most one upstream POST per request, issued only for a POST with
\* a parsed body, an array `message` and a configured key; a request answered 400,
\* the 500 configuration error or 405 made no upstream call; the phases are passed
\* in order, none twice.
C9_NoCallWhenAnswered400 ==
    \A r \in Requests :
        /\ upstreamCalls[r] <= 1
        /\ (upstreamCalls[r] = 1 =>
               method[r] = "POST" /\ ValidRequestBody(body[r]) /\ KeyConfigured)
        /\ (Responded(r) /\ (\/ response[r].status \in {400, 405}
                             \/ response[r] = ConfigurationError)
               => upstreamCalls[r] = 0)
        /\ Linear(trace[r])

\* C9 amended: as C9, but the answers that imply no upstream call are the two 400
\* answers of validation ('Invalid JSON in request body', 'Invalid request...'), the
\* 500 configuration error and 405; a 400 of the upstream is passed through after
\* the one call.
C9_NoCallWhenRejected ==
    \A r \in Requests :
        /\ upstreamCalls[r] <= 1
        /\ (upstreamCalls[r] = 1 =>
               method[r] = "POST" /\ ValidRequestBody(body[r]) /\ KeyConfigured)
        /\ (Responded(r) /\ response[r].error \in
                    { "Invalid JSON in request body",
                      "Invalid request. Expected {message: []} in body",
                      "OpenRouter API key not configured",
                      "Method not allowed. Use POST instead." }
               => upstreamCalls[r] = 0)
        /\ Linear(trace[r])

C9_Witness ==
    \E r \in Requests : \E q \in Requests \ {r} :
        /\ Responded(r)
        /\ trace[r] = <<"Received", "Validated", "Dispatched", "TransportFailed", "Responded">>
        /\ upstreamCalls[r] = 1
        /\ Responded(q)
        /\ response[q] = InvalidRequest
        /\ upstreamCalls[q] = 0

\* C10 as stated: every POST received is eventually answered, the upstream being
\* free never to deliver headers or never to finish the body.
C10_EveryPostAnswered ==
    \A r \in Requests : (method[r] = "POST") ~> Responded(r)

====
